---- MODULE Spec2Model ----
(***************************************************************************)
(* A model of librespot's CDN streaming core:                              *)
(*   librespot/audio/cdn/CdnManager.py      (CdnUrl, Streamer,             *)
(*                                           Streamer.InternalStream)      *)
(*   librespot/audio/decrypt/AesAudioDecrypt.py                            *)
(*                                                                         *)
(* Strings are sequences of one-character strings, so that urlparse,       *)
(* parse_qs, str.split, str.index and int() are computed on the text the   *)
(* way Python computes them.  The specifications share the variables:      *)
(*   SpecParse  CdnUrl construction (set_url) over generated URLs          *)
(*   SpecUrl    CdnUrl.url() calls on a constructed CdnUrl, with a clock   *)
(*   Spec       one Streamer: sizing probe, reader, worker tasks, close    *)
(*   FairSpec   Spec with the fairness the thread pool and the reader      *)
(*              thread provide                                             *)
(*   SpecAhead  the Streamer with overlapping fetches; FairAhead likewise  *)
(*   SpecHalt   the Streamer with stalled reads and the halt listener      *)
(*   SpecDecrypt  AesAudioDecrypt.decrypt_chunk over generated inputs      *)
(***************************************************************************)
EXTENDS Integers, Sequences, FiniteSets, TLC

VARIABLES
    \* ---- CdnManager.CdnUrl ------------------------------------------
    input,          \* the (file_id, url) handed to CdnUrl.__init__, with the
                    \* pieces the url was assembled from (observation only)
    ctor,           \* "new" | "ok" | "ValueError": outcome of CdnUrl.__init__
    fileId,         \* CdnUrl.__fileId    (None or a file id)
    _url,           \* CdnUrl._url
    _expiration,    \* CdnUrl._expiration (-1 = never)
    now,            \* int(time.time() * 1000)
    calls,          \* log of the CdnUrl.url() calls made so far
    \* ---- CdnManager.Streamer ----------------------------------------
    phase,          \* "Created" | "Active" | "Failed"
    _size,          \* Streamer._size
    _chunks,        \* Streamer._chunks
    _available,     \* Streamer._available
    _requested,     \* Streamer._requested
    _buffer,        \* Streamer._buffer
    closed,         \* InternalStream.closed
    tasks,          \* the tasks submitted to Streamer._executorService
    reader,         \* the reader thread inside the blocking read
    chunkException, \* the chunk whose fetch error was handed to the reader
    requests,       \* log of the ranged requests sent by Streamer.request
    probe,          \* the response to the sizing probe of Streamer.__init__
    _haltListener,  \* Streamer._haltListener (None or a listener)
    halted,         \* the blocked read has reported that it is stalled
    notifications,  \* the listener calls submitted to _executorService
    delivered,      \* the calls the halt listener has received, in order
    \* ---- AesAudioDecrypt ---------------------------------------------
    dec             \* one decrypt_chunk call: its arguments and its result

cdnVars    == <<input, ctor, fileId, _url, _expiration, now, calls>>
haltVars   == <<_haltListener, halted, notifications, delivered>>
streamVars == <<phase, _size, _chunks, _available, _requested, _buffer,
                closed, tasks, reader, chunkException, requests, probe,
                haltVars, dec>>
vars       == <<cdnVars, streamVars>>

None == "None"

-----------------------------------------------------------------------------
(* Bounds of the model.                                                    *)

\* segments of a generated __token__ value
MaxSegs == 2
\* url() calls in one behaviour of SpecUrl
MaxUrlCalls == 2
\* clock steps in one behaviour
MaxTicks == 2
\* chunks of the remote object
MaxChunks == 3

-----------------------------------------------------------------------------
(* Python string primitives, on sequences of characters.                   *)

Max(a, b) == IF a >= b THEN a ELSE b
Min(a, b) == IF a <= b THEN a ELSE b

\* str.index(c): the first position of c in s, 0 when Python raises ValueError
IndexOf(s, c) ==
    IF \E k \in 1..Len(s) : s[k] = c
    THEN CHOOSE k \in 1..Len(s) : s[k] = c /\ \A j \in 1..(k - 1) : s[j] # c
    ELSE 0

\* s[a:b] with 1-based inclusive bounds
Slice(s, a, b) == IF a > b THEN <<>> ELSE SubSeq(s, a, b)

\* str.split(c): always at least one piece
RECURSIVE Split(_, _)
Split(s, c) ==
    LET i == IndexOf(s, c)
    IN  IF i = 0 THEN <<s>>
        ELSE <<Slice(s, 1, i - 1)>> \o Split(Slice(s, i + 1, Len(s)), c)

\* c.join(pieces)
RECURSIVE Join(_, _)
Join(pieces, c) ==
    IF Len(pieces) = 0 THEN <<>>
    ELSE IF Len(pieces) = 1 THEN pieces[1]
    ELSE pieces[1] \o <<c>> \o Join(Tail(pieces), c)

IsDigit(c) == c \in {"0", "1", "2", "3", "4", "5", "6", "7", "8", "9"}

DigitVal(c) ==
    CASE c = "0" -> 0 [] c = "1" -> 1 [] c = "2" -> 2 [] c = "3" -> 3
      [] c = "4" -> 4 [] c = "5" -> 5 [] c = "6" -> 6 [] c = "7" -> 7
      [] c = "8" -> 8 [] c = "9" -> 9

\* the value of a digit string in which single underscores may separate digits
RECURSIVE DigitsValue(_, _)
DigitsValue(s, acc) ==
    IF Len(s) = 0 THEN acc
    ELSE IF Head(s) = "_" THEN DigitsValue(Tail(s), acc)
    ELSE DigitsValue(Tail(s), 10 * acc + DigitVal(Head(s)))

\* int(s): Python accepts an optional sign, then digits with single
\* underscores between digits; anything else raises ValueError (ok = FALSE).
int(s) ==
    LET signed == Len(s) > 0 /\ s[1] \in {"-", "+"}
        body   == IF signed THEN Tail(s) ELSE s
        wellFormed ==
            /\ Len(body) > 0
            /\ \A k \in 1..Len(body) : IsDigit(body[k]) \/ body[k] = "_"
            /\ IsDigit(body[1]) /\ IsDigit(body[Len(body)])
            /\ \A k \in 1..(Len(body) - 1) : ~(body[k] = "_" /\ body[k + 1] = "_")
    IN  IF ~wellFormed THEN [ok |-> FALSE, val |-> 0]
        ELSE [ok  |-> TRUE,
              val |-> IF signed /\ s[1] = "-" THEN 0 - DigitsValue(body, 0)
                      ELSE DigitsValue(body, 0)]

-----------------------------------------------------------------------------
(* urllib.parse, as set_url uses it.  The characters of the model's URLs   *)
(* include neither % nor +, on which unquote is the identity.              *)

\* urlparse(url).query: what follows the first "?" of the part before the
\* first "#"
urlparse_query(u) ==
    LET h    == IndexOf(u, "#")
        body == IF h = 0 THEN u ELSE Slice(u, 1, h - 1)
        q    == IndexOf(body, "?")
    IN  IF q = 0 THEN <<>> ELSE Slice(body, q + 1, Len(body))

TOKEN == <<"_", "_", "t", "o", "k", "e", "n", "_", "_">>

\* parse_qs(query).get(name): the values of the name=value pairs (split on
\* "&", each on its first "="), pairs without "=" and blank values dropped
\* (strict_parsing and keep_blank_values are False).
RECURSIVE PairValues(_, _)
PairValues(pairs, name) ==
    IF Len(pairs) = 0 THEN <<>>
    ELSE LET p  == Head(pairs)
             i  == IndexOf(p, "=")
             hit == /\ i # 0
                    /\ Slice(p, 1, i - 1) = name
                    /\ Len(p) > i
         IN  (IF hit THEN <<Slice(p, i + 1, Len(p))>> ELSE <<>>)
                 \o PairValues(Tail(pairs), name)

\* The empty list stands for None: parse_qs never maps a name to an empty list.
parse_qs_get(query, name) == PairValues(Split(query, "&"), name)

-----------------------------------------------------------------------------
(* CdnManager.CdnUrl                                                       *)

NEVER == 0 - 1

\* The loop of set_url over token_str.split("~"): the first segment that has
\* an "=" and whose text before the first "=" is "exp" decides, and int() of
\* the rest may raise.  found = FALSE: expire_at stays None.
RECURSIVE expire_at(_)
expire_at(split) ==
    IF Len(split) = 0 THEN [found |-> FALSE, ok |-> TRUE, val |-> 0]
    ELSE LET s == Head(split)
             i == IndexOf(s, "=")
         IN  IF i = 0 THEN expire_at(Tail(split))
             ELSE IF Slice(s, 1, i - 1) = <<"e", "x", "p">>
                  THEN LET n == int(Slice(s, i + 1, Len(s)))
                       IN  [found |-> TRUE, ok |-> n.ok, val |-> n.val]
                  ELSE expire_at(Tail(split))

\* CdnUrl.set_url(url) on an object whose file id is file_id and whose
\* _expiration was old: the fields after the call, and the exception that
\* left it ("none" when it returned).  _url is assigned first, so it is set
\* even when the parse raises.
set_url(file_id, u, old) ==
    IF file_id = None
    THEN [_url |-> u, _expiration |-> NEVER, exc |-> "none"]
    ELSE
      LET query      == urlparse_query(u)
          token_list == parse_qs_get(query, TOKEN)
          \* str(token_list[0]); TypeError on None gives ""
          token_str  == IF Len(token_list) = 0 THEN <<>> ELSE token_list[1]
      IN  IF token_str # <<"N", "o", "n", "e">> /\ Len(token_str) # 0
          THEN LET e == expire_at(Split(token_str, "~"))
               IN  IF ~e.found
                   THEN [_url |-> u, _expiration |-> NEVER, exc |-> "none"]
                   ELSE IF ~e.ok
                   THEN [_url |-> u, _expiration |-> old, exc |-> "ValueError"]
                   ELSE [_url |-> u, _expiration |-> e.val * 1000, exc |-> "none"]
          ELSE LET i == IndexOf(query, "_")
               IN  IF i = 0
                   THEN [_url |-> u, _expiration |-> NEVER, exc |-> "none"]
                   ELSE LET n == int(Slice(query, 1, i - 1))
                        IN  IF ~n.ok
                            THEN [_url |-> u, _expiration |-> old,
                                  exc |-> "ValueError"]
                            ELSE [_url |-> u, _expiration |-> n.val * 1000,
                                  exc |-> "none"]

\* CdnManager.get_audio_url(file_id): the outcomes of the storage-resolve
\* round trip.  A CDN result returns random.choice(proto.cdnurl); a status
\* other than 200 or an empty body raises IOError, another result
\* CdnException.
get_audio_url(candidates) ==
    {[exc |-> "none", url |-> u] : u \in candidates}
        \cup {[exc |-> "IOError", url |-> <<>>],
              [exc |-> "CdnException", url |-> <<>>]}

REFRESH_MARGIN_MS == 5 * 60 * 1000

\* What CdnUrl.url() returns: the str self._url, or the bound method self.url
StrValue(u)  == [kind |-> "str", val |-> u]
BoundMethod  == [kind |-> "bound method CdnUrl.url", val |-> <<>>]
NoValue      == [kind |-> "raised", val |-> <<>>]

\* url() without its early return for a URL that never expires
url_NoNeverCheck(u, exp, t, r) ==
    IF exp <= t + REFRESH_MARGIN_MS
    THEN IF r.exc # "none"
         THEN [_url |-> u, _expiration |-> exp, resolved |-> TRUE,
               exc |-> r.exc, ret |-> NoValue]
         ELSE [_url |-> r.url, _expiration |-> exp, resolved |-> TRUE,
               exc |-> "none", ret |-> BoundMethod]
    ELSE [_url |-> u, _expiration |-> exp, resolved |-> FALSE,
          exc |-> "none", ret |-> BoundMethod]

\* CdnUrl.url() at time t on an object with fields (u, exp), the resolver
\* answering r: the fields after the call, whether the resolver was invoked,
\* the exception that left the call and the value returned.
url(u, exp, t, r) ==
    IF exp = NEVER
    THEN [_url |-> u, _expiration |-> exp, resolved |-> FALSE,
          exc |-> "none", ret |-> StrValue(u)]
    ELSE IF exp <= t + REFRESH_MARGIN_MS
    THEN IF r.exc # "none"
         THEN [_url |-> u, _expiration |-> exp, resolved |-> TRUE,
               exc |-> r.exc, ret |-> NoValue]
         ELSE [_url |-> r.url, _expiration |-> exp, resolved |-> TRUE,
               exc |-> "none", ret |-> BoundMethod]
    ELSE [_url |-> u, _expiration |-> exp, resolved |-> FALSE,
          exc |-> "none", ret |-> BoundMethod]

-----------------------------------------------------------------------------
(* The URLs of the model, assembled from pieces so that what each one      *)
(* carries is known independently of the parse.                            *)

\* A piece: its text, whether it has the form <key>=<integer> (key "exp"
\* for a token segment) or <integer>_<rest> (a query prefix), and the integer.
Piece(text, isInt, n) == [text |-> text, isInt |-> isInt, n |-> n]

SegExp700  == Piece(<<"e", "x", "p", "=", "7", "0", "0">>, TRUE, 700)
SegExp1    == Piece(<<"e", "x", "p", "=", "1">>, TRUE, 1)
SegExpX    == Piece(<<"e", "x", "p", "=", "x">>, FALSE, 0)
SegExpNone == Piece(<<"e", "x", "p", "=">>, FALSE, 0)
SegSig     == Piece(<<"s", "i", "g", "=", "a">>, FALSE, 0)
SegData    == Piece(<<"d", "a", "t", "a">>, FALSE, 0)
SegNone    == Piece(<<"N", "o", "n", "e">>, FALSE, 0)

Segments == {SegExp700, SegExp1, SegExpX, SegExpNone, SegSig, SegData, SegNone}

PreEmpty   == Piece(<<>>, FALSE, 0)
Pre700     == Piece(<<"7", "0", "0", "_", "a">>, TRUE, 700)
Pre1       == Piece(<<"1", "_", "a">>, TRUE, 1)
PreX       == Piece(<<"x", "_", "a">>, FALSE, 0)
PreBare    == Piece(<<"_", "a">>, FALSE, 0)
PreNoUnder == Piece(<<"a">>, FALSE, 0)

Prefixes == {PreEmpty, Pre700, Pre1, PreX, PreBare, PreNoUnder}

\* The query: the prefix, then (form "token") __token__=<segments joined by
\* "~">, or (form "blank") __token__= with an empty value, or (form "absent")
\* nothing more.
Texts(segs) == [k \in 1..Len(segs) |-> segs[k].text]

QueryOf(prefix, form, segs) ==
    LET param == IF form = "absent" THEN <<>>
                 ELSE TOKEN \o <<"=">> \o Join(Texts(segs), "~")
    IN  IF form = "absent" THEN prefix.text
        ELSE IF Len(prefix.text) = 0 THEN param
        ELSE prefix.text \o <<"&">> \o param

BASE == <<"h">>

UrlOf(prefix, form, segs) ==
    LET q == QueryOf(prefix, form, segs)
    IN  IF Len(q) = 0 THEN BASE ELSE BASE \o <<"?">> \o q

SeqsOf(S, lo, hi) == UNION {[1..k -> S] : k \in lo..hi}

FileIds == {None, "file"}

MakeInput(f, prefix, form, segs) ==
    [file_id |-> f, prefix |-> prefix, form |-> form, segs |-> segs,
     url |-> UrlOf(prefix, form, segs)]

Inputs ==
    {MakeInput(f, p, "absent", <<>>) : f \in FileIds, p \in Prefixes}
  \cup
    {MakeInput(f, p, "blank", <<>>) : f \in FileIds, p \in Prefixes}
  \cup
    UNION {{MakeInput(f, p, "token", segs) : f \in FileIds, p \in Prefixes}
              : segs \in SeqsOf(Segments, 1, MaxSegs)}

-----------------------------------------------------------------------------
(* Values of the variables a specification leaves alone.                   *)

NoBytes == [src |-> 0 - 1, len |-> 0, blocks |-> <<>>]

IdleReader == [pc |-> "idle", chunk |-> 0 - 1, blocked |-> FALSE,
               result |-> "none", data |-> NoBytes]

NoResponse == [status_code |-> 0, content |-> NoBytes,
               content_range |-> 0 - 1]

NoDec == [chunk_index |-> 0 - 1, buffer |-> NoBytes, called |-> FALSE,
          out |-> NoBytes]

StreamCreated ==
    /\ phase = "Created"
    /\ _size = 0
    /\ _chunks = 0
    /\ _available = <<>>
    /\ _requested = <<>>
    /\ _buffer = <<>>
    /\ closed = FALSE
    /\ tasks = <<>>
    /\ reader = IdleReader
    /\ chunkException = 0 - 1
    /\ requests = <<>>
    /\ probe = NoResponse
    /\ halted = FALSE
    /\ notifications = <<>>
    /\ delivered = <<>>

-----------------------------------------------------------------------------
(* SpecParse: CdnUrl.__init__ over every generated (file_id, url).         *)

ParseInit ==
    /\ input \in Inputs
    /\ ctor = "new"
    /\ fileId = None
    /\ _url = <<>>
    /\ _expiration = 0
    /\ now = 0
    /\ calls = <<>>
    /\ StreamCreated
    /\ dec = NoDec
    /\ _haltListener = None

\* CdnUrl.__init__(cdn_manager, file_id, url)
CdnUrl_init ==
    /\ ctor = "new"
    /\ LET r == set_url(input.file_id, input.url, _expiration)
       IN  /\ fileId' = input.file_id
           /\ _url' = r._url
           /\ _expiration' = r._expiration
           /\ ctor' = IF r.exc = "none" THEN "ok" ELSE r.exc
    /\ UNCHANGED <<input, now, calls, streamVars>>

ParseNext == CdnUrl_init

SpecParse == ParseInit /\ [][ParseNext]_vars

-----------------------------------------------------------------------------
(* SpecUrl: url() calls on a constructed CdnUrl while the clock advances.  *)

TickMs == 200 * 1000

\* The constructed CdnUrl objects url() is exercised on: no __token__, or a
\* __token__ of one segment, behind every prefix, with and without a file id.
UrlInputs ==
    {i \in Inputs : /\ i.form \in {"absent", "token"}
                    /\ Len(i.segs) <= 1
                    /\ set_url(i.file_id, i.url, 0).exc = "none"}

\* proto.cdnurl of the storage-resolve answer: one URL that expires at
\* 700 s and one that expires at 1 s
ResolverUrls == {UrlOf(PreEmpty, "token", <<SegData, SegExp700>>),
                 UrlOf(Pre1, "absent", <<>>)}

Constructed(i) ==
    LET r == set_url(i.file_id, i.url, 0)
    IN  /\ input = i
        /\ ctor = "ok"
        /\ fileId = i.file_id
        /\ _url = r._url
        /\ _expiration = r._expiration

UrlInit ==
    /\ \E i \in UrlInputs : Constructed(i)
    /\ now = 0
    /\ calls = <<>>
    /\ StreamCreated
    /\ dec = NoDec
    /\ _haltListener = None

\* one call of CdnUrl.url()
UrlCall ==
    /\ ctor = "ok"
    /\ Len(calls) < MaxUrlCalls
    /\ \E r \in get_audio_url(ResolverUrls) :
          LET o == url(_url, _expiration, now, r)
          IN  /\ _url' = o._url
              /\ _expiration' = o._expiration
              /\ calls' = Append(calls,
                    [at |-> now, url_before |-> _url,
                     exp_before |-> _expiration, resolved |-> o.resolved,
                     exc |-> o.exc, ret |-> o.ret, url_after |-> o._url,
                     exp_after |-> o._expiration])
    /\ UNCHANGED <<input, ctor, fileId, now, streamVars>>

\* time passes
Tick ==
    /\ now < MaxTicks * TickMs
    /\ now' = now + TickMs
    /\ UNCHANGED <<input, ctor, fileId, _url, _expiration, calls, streamVars>>

UrlNext == UrlCall \/ Tick

SpecUrl == UrlInit /\ [][UrlNext]_vars

-----------------------------------------------------------------------------
(* Properties of CdnUrl.                                                   *)

Stale(exp, t) == exp # NEVER /\ t + REFRESH_MARGIN_MS >= exp

\* the expiration set_url derives from url u on an object with a file id
ParsedExpiration(f, u) == set_url(f, u, NEVER)._expiration

\* C2: a url() call that finds the URL stale (finite expiresAtMs and
\* now + 5 min >= expiresAtMs) and whose resolver answers leaves expiresAtMs
\* equal to the expiration parsed from the freshly resolved URL, and if that
\* fresh URL expires more than 5 minutes ahead, the next url() call at the
\* same time does not invoke the resolver again.
C2_RefreshReplacesExpiration ==
    \A k \in 1..Len(calls) :
        (Stale(calls[k].exp_before, calls[k].at) /\ calls[k].exc = "none") =>
            /\ calls[k].resolved
            /\ calls[k].exp_after = ParsedExpiration(fileId, calls[k].url_after)
            /\ (/\ k < Len(calls)
                /\ calls[k + 1].at = calls[k].at
                /\ ~Stale(ParsedExpiration(fileId, calls[k].url_after),
                          calls[k].at))
                  => ~calls[k + 1].resolved

\* C3: every url() call that returns hands back a URL string equal to the
\* URL stored in the object after the call, in the never-expiring branch and
\* in the expiring branch alike.
C3_UrlReturnsStoredUrl ==
    \A k \in 1..Len(calls) :
        calls[k].exc = "none" => calls[k].ret = StrValue(calls[k].url_after)

\* C4: a CdnUrl whose expiresAtMs is never is never refreshed: every
\* CdnUrl constructed without a file id has expiresAtMs = never, and a url()
\* call that finds expiresAtMs = never does not invoke the resolver, returns,
\* and leaves the stored URL and expiresAtMs as they were.
C4_NeverIsNeverRefreshed ==
    /\ (ctor = "ok" /\ fileId = None) => _expiration = NEVER
    /\ \A k \in 1..Len(calls) :
          calls[k].exp_before = NEVER =>
              /\ ~calls[k].resolved
              /\ calls[k].exc = "none"
              /\ calls[k].url_after = calls[k].url_before
              /\ calls[k].exp_after = NEVER

\* C4's case: a CdnUrl without a file id whose URL carries exp=700 has been
\* asked for its URL MaxUrlCalls times, the last time when a URL expiring at
\* 700 s would have been stale.
C4_Witness ==
    /\ fileId = None
    /\ input.form = "token" /\ input.segs = <<SegExp700>>
    /\ Len(calls) = MaxUrlCalls
    /\ calls[Len(calls)].exp_before = NEVER
    /\ calls[Len(calls)].at + REFRESH_MARGIN_MS >= 700 * 1000

\* An input carries a parsable expiration: a __token__ with an exp=<integer>
\* segment, or no (or an empty) __token__ behind <integer>_.
HasIntSegment(segs) == \E k \in 1..Len(segs) : segs[k].isInt

FirstIntSegment(segs) ==
    segs[CHOOSE k \in 1..Len(segs) :
            segs[k].isInt /\ \A j \in 1..(k - 1) : ~segs[j].isInt]

Parsable(i) ==
    \/ i.form = "token" /\ HasIntSegment(i.segs)
    \/ i.form \in {"absent", "blank"} /\ i.prefix.isInt

\* C5: expiration parsing never fails: for every URL assigned to a CdnUrl
\* with a file id, set_url returns without raising, and when the URL carries
\* no parsable expiration the result is expiresAtMs = never.
C5_ParsingNeverFails ==
    (ctor # "new" /\ input.file_id # None) =>
        /\ ctor = "ok"
        /\ ~Parsable(input) => _expiration = NEVER

\* C6: for a CdnUrl with a file id, a non-empty __token__ with an
\* exp=<integer> segment gives expiresAtMs = exp * 1000 for the first such
\* segment, whatever precedes the __token__ parameter; with __token__ absent
\* or empty, a query that starts <integer>_ gives expiresAtMs = integer * 1000.
C6_ExpirationValue ==
    (ctor # "new" /\ input.file_id # None) =>
        /\ (input.form = "token" /\ HasIntSegment(input.segs)) =>
              /\ ctor = "ok"
              /\ _expiration = FirstIntSegment(input.segs).n * 1000
        /\ (input.form \in {"absent", "blank"} /\ input.prefix.isInt) =>
              /\ ctor = "ok"
              /\ _expiration = input.prefix.n * 1000

-----------------------------------------------------------------------------
(* AudioDecrypt.  A byte string is its origin (the chunk of the remote     *)
(* object it is the ciphertext of, -1 for none), its length, and, once     *)
(* decrypted, the sub-blocks it was decrypted in: each with its length and *)
(* the counter its cipher started from, as an offset from iv_int (a        *)
(* 128-bit value).                                                         *)

CHUNK_SIZE == 128 * 1024

SUB_BLOCK == 4096

iv_diff == 256

\* the bytes written to new_buffer: the sum of the sub-blocks' lengths
SumCounts(blocks) ==
    LET written[k \in 0..Len(blocks)] ==
            IF k = 0 THEN 0 ELSE written[k - 1] + blocks[k].count
    IN  written[Len(blocks)]

\* decrypt_chunk advancing the counter by the sub-block's bytes
AesAudioDecrypt_decrypt_chunk_ByteStride(chunk_index, buffer) ==
    LET iv == (CHUNK_SIZE * chunk_index) \div 16
        n  == (buffer.len + SUB_BLOCK - 1) \div SUB_BLOCK
        blocks == [k \in 1..n |->
                     [count   |-> Min(SUB_BLOCK,
                                      buffer.len - (k - 1) * SUB_BLOCK),
                      counter |-> iv + (k - 1) * SUB_BLOCK]]
    IN  [src |-> buffer.src, len |-> SumCounts(blocks), blocks |-> blocks]

\* decrypt_chunk starting at the chunk's byte offset
AesAudioDecrypt_decrypt_chunk_ByteStart(chunk_index, buffer) ==
    LET iv == CHUNK_SIZE * chunk_index
        n  == (buffer.len + SUB_BLOCK - 1) \div SUB_BLOCK
        blocks == [k \in 1..n |->
                     [count   |-> Min(SUB_BLOCK,
                                      buffer.len - (k - 1) * SUB_BLOCK),
                      counter |-> iv + (k - 1) * iv_diff]]
    IN  [src |-> buffer.src, len |-> SumCounts(blocks), blocks |-> blocks]

\* AesAudioDecrypt.decrypt_chunk(chunk_index, buffer): the decrypted bytes
\* are those of the input (src), in sub-blocks of up to 4096 bytes, each
\* decrypted by a new counter-mode cipher that starts at `counter` (kept as
\* the offset from iv_int).
AesAudioDecrypt_decrypt_chunk(chunk_index, buffer) ==
    LET iv == (CHUNK_SIZE * chunk_index) \div 16
        n  == (buffer.len + SUB_BLOCK - 1) \div SUB_BLOCK
        blocks == [k \in 1..n |->
                     [count   |-> Min(SUB_BLOCK,
                                      buffer.len - (k - 1) * SUB_BLOCK),
                      counter |-> iv + (k - 1) * iv_diff]]
    IN  [src |-> buffer.src, len |-> SumCounts(blocks), blocks |-> blocks]

\* The counter a counter-mode cipher uses for the 16-byte block at byte
\* offset b of the chunk: the cipher of b's sub-block starts at that
\* sub-block's counter and counts one up per 16 bytes.
CounterAt(out, b) ==
    out.blocks[b \div SUB_BLOCK + 1].counter + (b % SUB_BLOCK) \div 16

\* NoopAudioDecrypt.decrypt_chunk: the input, unchanged
NoopAudioDecrypt_decrypt_chunk(chunk_index, buffer) == buffer

\* stream_file hands the Streamer an AesAudioDecrypt and a CdnUrl with the
\* file id, stream_external_episode a NoopAudioDecrypt and a CdnUrl without.
decrypt_chunk(chunk_index, buffer) ==
    IF fileId = None THEN NoopAudioDecrypt_decrypt_chunk(chunk_index, buffer)
    ELSE AesAudioDecrypt_decrypt_chunk(chunk_index, buffer)

-----------------------------------------------------------------------------
(* SpecDecrypt: one call of AesAudioDecrypt.decrypt_chunk.                 *)

\* The lengths of the buffers handed to decrypt_chunk: around every multiple
\* of the sub-block size up to MaxChunks sub-blocks, and a whole chunk and
\* one byte less.
DecryptLengths ==
    {k * SUB_BLOCK + d : k \in 0..MaxChunks, d \in {0, 1, 16, SUB_BLOCK - 1}}
        \cup {CHUNK_SIZE - 1, CHUNK_SIZE}

DecryptInit ==
    /\ Constructed(MakeInput("file", PreEmpty, "token", <<SegExp700>>))
    /\ now = 0
    /\ calls = <<>>
    /\ StreamCreated
    /\ _haltListener = None
    /\ \E i \in 0..MaxChunks : \E n \in DecryptLengths :
          dec = [chunk_index |-> i,
                 buffer |-> [src |-> i, len |-> n, blocks |-> <<>>],
                 called |-> FALSE, out |-> NoBytes]

\* new_buffer = decrypt_chunk(chunk_index, buffer)
Decrypt ==
    /\ ~dec.called
    /\ dec' = [dec EXCEPT
                  !.called = TRUE,
                  !.out = AesAudioDecrypt_decrypt_chunk(dec.chunk_index,
                                                        dec.buffer)]
    /\ UNCHANGED <<cdnVars, phase, _size, _chunks, _available, _requested,
                   _buffer, closed, tasks, reader, chunkException, requests,
                   probe, haltVars>>

DecryptNext == Decrypt

SpecDecrypt == DecryptInit /\ [][DecryptNext]_vars

-----------------------------------------------------------------------------
(* The HTTP transport: session.client().get(url, headers={"Range": ...}).  *)

NoBody == [src |-> 0 - 1, len |-> 0 - 1, blocks |-> <<>>]
NoHeader == 0 - 1

\* the bytes range_start..range_end of a remote object of `total` bytes
RemoteBytes(total, range_start, range_end) ==
    [src    |-> range_start \div CHUNK_SIZE,
     len    |-> Max(0, Min(range_end, total - 1) - range_start + 1),
     blocks |-> <<>>]

\* The sizes the remote object may have: none, one byte, and around every
\* multiple of CHUNK_SIZE up to MaxChunks chunks.
TotalSizes ==
    {0, 1} \cup {k * CHUNK_SIZE : k \in 1..MaxChunks}
           \cup {k * CHUNK_SIZE + 1 : k \in 1..(MaxChunks - 1)}

\* The responses to a ranged request for an object of `total` bytes: 206
\* with the bytes (and the Content-Range total, or without that header), a
\* response without a body, and another status (whatever it carries).
Responses(total, range_start, range_end) ==
    {[status_code |-> 206, content |-> RemoteBytes(total, range_start, range_end),
      content_range |-> total],
     [status_code |-> 206, content |-> RemoteBytes(total, range_start, range_end),
      content_range |-> NoHeader],
     [status_code |-> 206, content |-> NoBody, content_range |-> total],
     [status_code |-> 404, content |-> RemoteBytes(total, range_start, range_end),
      content_range |-> total]}

-----------------------------------------------------------------------------
(* CdnManager.Streamer                                                     *)

Chunks == DOMAIN _available

\* Streamer.request(chunk) / request(range_start, range_end): the GET goes to
\* self._cdnUrl._url as stored; CdnUrl.url() is not called.  The entry the
\* request leaves in the log: where it was sent, and whether the stored URL
\* was stale and whether the resolver was invoked for it.
request_entry(range_start, range_end) ==
    [range_start |-> range_start, range_end |-> range_end,
     url |-> _url, stale |-> Stale(_expiration, now), resolved |-> FALSE]

\* request() accepting every status
request_exc_AnyStatus(resp) ==
    IF resp.content = NoBody THEN "IOError" ELSE "none"

\* the exception request() raises on response resp, "none" when it returns
request_exc(resp) ==
    IF resp.status_code # 206 THEN "IOError"
    ELSE IF resp.content = NoBody THEN "IOError"
    ELSE "none"

\* the chunk count as a quotient plus one
chunk_count_QuotientPlusOne(size) == size \div CHUNK_SIZE + 1

\* self._chunks = int(math.ceil(self._size / ChannelManager.CHUNK_SIZE))
chunk_count(size) == (size + CHUNK_SIZE - 1) \div CHUNK_SIZE

\* the requested bits without self._requested[0] = True
first_requested_NoneSet(chunks) == [i \in 0..(chunks - 1) |-> FALSE]

\* self._requested = [False for _ in range(chunks)], then
\* self._requested[0] = True
first_requested(chunks) == [i \in 0..(chunks - 1) |-> i = 0]

\* Streamer.__init__: the sizing probe for bytes 0..CHUNK_SIZE-1, the chunk
\* table, and chunk 0 written from the probe's body.
Streamer_init ==
    /\ phase = "Created"
    /\ ctor = "ok"
    /\ \E total \in TotalSizes :
       \E resp \in Responses(total, 0, CHUNK_SIZE - 1) :
          LET size   == resp.content_range
              chunks == chunk_count(size)
              failed == \/ request_exc(resp) # "none"
                        \/ resp.content_range = NoHeader
                        \/ chunks = 0      \* self._requested[0]: IndexError
          IN  /\ requests' = Append(requests, request_entry(0, CHUNK_SIZE - 1))
              /\ probe' = resp
              /\ IF failed
                 THEN /\ phase' = "Failed"
                      /\ UNCHANGED <<_size, _chunks, _available, _requested,
                                     _buffer>>
                 ELSE /\ phase' = "Active"
                      /\ _size' = size
                      /\ _chunks' = chunks
                      /\ _requested' = first_requested(chunks)
                      \* write_chunk(first_chunk, 0, False) on the new stream
                      /\ _buffer' = [i \in 0..(chunks - 1) |->
                                        IF i = 0 THEN decrypt_chunk(0, resp.content)
                                        ELSE NoBytes]
                      /\ _available' = [i \in 0..(chunks - 1) |-> i = 0]
    /\ UNCHANGED <<cdnVars, dec, haltVars, closed, tasks, reader,
                   chunkException>>

\* two tasks submitted for one call
request_chunk_from_stream_Twice(ts, index) ==
    ts \o <<[index |-> index, pc |-> "submitted", chunk |-> NoBytes],
            [index |-> index, pc |-> "submitted", chunk |-> NoBytes]>>

\* InternalStream.request_chunk_from_stream(index): one task, running
\* Streamer.request_chunk(index), is submitted to the executor and its
\* future dropped.
request_chunk_from_stream(ts, index) ==
    Append(ts, [index |-> index, pc |-> "submitted", chunk |-> NoBytes])

\* request_chunk asking for the range of the chunk before
TaskRequest_RangeBefore(t) ==
    /\ tasks[t].pc = "submitted"
    /\ LET index       == tasks[t].index
           range_start == CHUNK_SIZE * (index - 1)
           range_end   == index * CHUNK_SIZE - 1
       IN  /\ requests' = Append(requests, request_entry(range_start, range_end))
           /\ \E resp \in Responses(_size, range_start, range_end) :
                 tasks' = [tasks EXCEPT ![t] =
                    IF request_exc(resp) # "none"
                    THEN [@ EXCEPT !.pc = "failed"]
                    ELSE [@ EXCEPT !.pc = "write_chunk", !.chunk = resp.content]]
    /\ UNCHANGED <<cdnVars, dec, probe, haltVars, phase, _size, _chunks,
                   _available, _requested, _buffer, closed,
                   reader, chunkException>>

\* A worker runs request_chunk(index) up to the return of request(index):
\* an exception ends the task inside its future, which nobody holds.
TaskRequest(t) ==
    /\ tasks[t].pc = "submitted"
    /\ LET index       == tasks[t].index
           range_start == CHUNK_SIZE * index
           range_end   == (index + 1) * CHUNK_SIZE - 1
       IN  /\ requests' = Append(requests, request_entry(range_start, range_end))
           /\ \E resp \in Responses(_size, range_start, range_end) :
                 tasks' = [tasks EXCEPT ![t] =
                    IF request_exc(resp) # "none"
                    THEN [@ EXCEPT !.pc = "failed"]
                    ELSE [@ EXCEPT !.pc = "write_chunk", !.chunk = resp.content]]
    /\ UNCHANGED <<cdnVars, dec, probe, haltVars, phase, _size, _chunks,
                   _available, _requested, _buffer, closed,
                   reader, chunkException>>

\* write_chunk, its first statement: return if the stream is closed
TaskWriteCheck(t) ==
    /\ tasks[t].pc = "write_chunk"
    /\ tasks' = [tasks EXCEPT ![t].pc = IF closed THEN "done" ELSE "decrypt"]
    /\ UNCHANGED <<cdnVars, dec, probe, haltVars, phase, _size, _chunks,
                   _available, _requested, _buffer,
                   closed, reader, chunkException, requests>>

\* write_chunk storing the chunk as received
TaskStore_Raw(t) ==
    /\ tasks[t].pc = "decrypt"
    /\ _buffer' = [_buffer EXCEPT ![tasks[t].index] = tasks[t].chunk]
    /\ tasks' = [tasks EXCEPT ![t].pc = "notify"]
    /\ UNCHANGED <<cdnVars, dec, probe, haltVars, phase, _size, _chunks,
                   _available, _requested, closed, reader,
                   chunkException, requests>>

\* write_chunk storing into the slot before
TaskStore_SlotBefore(t) ==
    /\ tasks[t].pc = "decrypt"
    /\ _buffer' = [_buffer EXCEPT ![tasks[t].index - 1] =
                      decrypt_chunk(tasks[t].index, tasks[t].chunk)]
    /\ tasks' = [tasks EXCEPT ![t].pc = "notify"]
    /\ UNCHANGED <<cdnVars, dec, probe, haltVars, phase, _size, _chunks,
                   _available, _requested, closed, reader,
                   chunkException, requests>>

\* write_chunk: self._buffer[chunk_index] = decrypt_chunk(chunk_index, chunk)
TaskStore(t) ==
    /\ tasks[t].pc = "decrypt"
    /\ _buffer' = [_buffer EXCEPT ![tasks[t].index] =
                      decrypt_chunk(tasks[t].index, tasks[t].chunk)]
    /\ tasks' = [tasks EXCEPT ![t].pc = "notify"]
    /\ UNCHANGED <<cdnVars, dec, probe, haltVars, phase, _size, _chunks,
                   _available, _requested, closed, reader,
                   chunkException, requests>>

\* write_chunk: self._internalStream.notify_chunk_available(chunk_index)
notify_chunk_available(avail, index) == [avail EXCEPT ![index] = TRUE]

\* write_chunk marking every chunk up to chunk_index available
TaskNotify_UpTo(t) ==
    /\ tasks[t].pc = "notify"
    /\ _available' = [i \in DOMAIN _available |->
                         _available[i] \/ i <= tasks[t].index]
    /\ tasks' = [tasks EXCEPT ![t].pc = "done"]
    /\ UNCHANGED <<cdnVars, dec, probe, haltVars, phase, _size, _chunks,
                   _requested, _buffer, closed, reader, chunkException,
                   requests>>

TaskNotify(t) ==
    /\ tasks[t].pc = "notify"
    /\ _available' = notify_chunk_available(_available, tasks[t].index)
    /\ tasks' = [tasks EXCEPT ![t].pc = "done"]
    /\ UNCHANGED <<cdnVars, dec, probe, haltVars, phase, _size, _chunks,
                   _requested, _buffer,
                   closed, reader, chunkException, requests>>

Worker == \E t \in 1..Len(tasks) :
             TaskRequest(t) \/ TaskWriteCheck(t) \/ TaskStore(t) \/ TaskNotify(t)

-----------------------------------------------------------------------------
(* The chunked stream's blocking read and close (AbsChunkedInputStream,    *)
(* the base class of Streamer.InternalStream).  One reader per stream.     *)

\* the wait of a blocked read ignoring close
CanWake_IgnoringClose(c) == _available[c] \/ chunkException = c

\* a blocked read of chunk c ends when the chunk is available, when the
\* stream is closed, or when a fetch error for the chunk has been delivered
CanWake(c) == closed \/ _available[c] \/ chunkException = c

\* A read that maps to chunk c starts: on a closed stream it ends with the
\* closed signal; an available chunk is returned; otherwise the chunk is
\* marked requested and its fetch triggered unless it is requested already,
\* and the read blocks.
Read(c) ==
    /\ phase = "Active"
    /\ reader.pc = "idle"
    /\ c \in Chunks
    /\ IF closed
       THEN /\ reader' = [pc |-> "idle", chunk |-> c, blocked |-> FALSE,
                          result |-> "closed", data |-> NoBytes]
            /\ UNCHANGED <<_requested, tasks>>
       ELSE IF _available[c]
       THEN /\ reader' = [pc |-> "idle", chunk |-> c, blocked |-> FALSE,
                          result |-> "data", data |-> _buffer[c]]
            /\ UNCHANGED <<_requested, tasks>>
       ELSE /\ reader' = [pc |-> "waiting", chunk |-> c, blocked |-> TRUE,
                          result |-> "none", data |-> NoBytes]
            /\ IF _requested[c]
               THEN UNCHANGED <<_requested, tasks>>
               ELSE /\ _requested' = [_requested EXCEPT ![c] = TRUE]
                    /\ tasks' = request_chunk_from_stream(tasks, c)
    /\ UNCHANGED <<cdnVars, dec, probe, haltVars, phase, _size, _chunks,
                   _available, _buffer,
                   closed, chunkException, requests>>

\* InternalStream.stream_read_halted(chunk, _time): with a halt listener,
\* a task calling listener.stream_read_halted(chunk, _time) is submitted to
\* the executor; without one, nothing is.
stream_read_halted(ns, chunk) ==
    IF _haltListener # None
    THEN Append(ns, [kind |-> "stream_read_halted", chunk |-> chunk,
                     pc |-> "submitted"])
    ELSE ns

\* InternalStream.stream_read_resumed(chunk, _time), likewise
stream_read_resumed(ns, chunk) ==
    IF _haltListener # None
    THEN Append(ns, [kind |-> "stream_read_resumed", chunk |-> chunk,
                     pc |-> "submitted"])
    ELSE ns

\* The wait of the blocked read has exceeded the stall threshold: the stall
\* is reported, once for the read.
Stall ==
    /\ reader.pc = "waiting"
    /\ ~halted
    /\ halted' = TRUE
    /\ notifications' = stream_read_halted(notifications, reader.chunk)
    /\ UNCHANGED <<cdnVars, dec, probe, _haltListener, delivered, phase, _size,
                   _chunks, _available, _requested, _buffer, closed, tasks,
                   reader, chunkException, requests>>

\* The blocked read ends: with the closed signal, with the delivered error,
\* or with the chunk's bytes; a read that reported a stall and now has its
\* chunk reports that it resumes.
ReaderWake ==
    /\ reader.pc = "waiting"
    /\ CanWake(reader.chunk)
    /\ reader' = [reader EXCEPT
          !.pc = "idle",
          !.result = IF closed THEN "closed"
                     ELSE IF chunkException = reader.chunk THEN "error"
                     ELSE "data",
          !.data = IF ~closed /\ chunkException # reader.chunk
                   THEN _buffer[reader.chunk] ELSE NoBytes]
    /\ halted' = FALSE
    /\ notifications' =
          IF halted /\ ~closed /\ chunkException # reader.chunk
          THEN stream_read_resumed(notifications, reader.chunk)
          ELSE notifications
    /\ UNCHANGED <<cdnVars, dec, probe, _haltListener, delivered, phase, _size,
                   _chunks, _available, _requested, _buffer, closed, tasks,
                   chunkException, requests>>

\* The availability of chunk c is checked without waiting for it (a seek,
\* or reading ahead): the chunk is marked requested and its fetch triggered
\* unless it is requested already.  The stream looks ahead while no fetch
\* is running, so that with the fetch of the next blocking read two fetches
\* are in flight and complete in either order.
Prefetch(c) ==
    /\ phase = "Active"
    /\ reader.pc = "idle"
    /\ ~closed
    /\ c \in Chunks
    /\ ~_requested[c]
    /\ \A t \in 1..Len(tasks) : tasks[t].pc \in {"done", "failed"}
    /\ _requested' = [_requested EXCEPT ![c] = TRUE]
    /\ tasks' = request_chunk_from_stream(tasks, c)
    /\ UNCHANGED <<cdnVars, dec, probe, haltVars, phase, _size, _chunks,
                   _available, _buffer, closed, reader, chunkException,
                   requests>>

\* An executor thread runs a submitted notification: the halt listener
\* receives the call.  The executor has several threads, so the submitted
\* notifications run in any order.
Deliver(n) ==
    /\ notifications[n].pc = "submitted"
    /\ notifications' = [notifications EXCEPT ![n].pc = "done"]
    /\ delivered' = Append(delivered, [kind  |-> notifications[n].kind,
                                       chunk |-> notifications[n].chunk])
    /\ UNCHANGED <<cdnVars, dec, probe, _haltListener, halted, phase, _size,
                   _chunks, _available, _requested, _buffer, closed, tasks,
                   reader, chunkException, requests>>

Listener == \E n \in 1..Len(notifications) : Deliver(n)

\* close(): marks the stream closed and wakes the blocked reader
Close ==
    /\ phase = "Active"
    /\ closed' = TRUE
    /\ UNCHANGED <<cdnVars, dec, probe, haltVars, phase, _size, _chunks,
                   _available, _requested,
                   _buffer, tasks, reader, chunkException, requests>>

-----------------------------------------------------------------------------
(* Spec: one stream, opened by stream_file or stream_external_episode.     *)

\* the CdnUrl objects a Streamer is given: an external episode URL (no file
\* id), a file URL that expires at 700 s, and one that expires at 1 s
StreamInputs ==
    {MakeInput(None, PreEmpty, "token", <<SegExp700>>),
     MakeInput("file", PreEmpty, "token", <<SegExp700>>),
     MakeInput("file", Pre1, "absent", <<>>)}

Init ==
    /\ \E i \in StreamInputs : Constructed(i)
    /\ now = 0
    /\ calls = <<>>
    /\ StreamCreated
    /\ dec = NoDec
    /\ _haltListener = None

Next ==
    \/ Streamer_init
    \/ \E c \in Chunks : Read(c)
    \/ ReaderWake
    \/ Worker
    \/ Close
    \/ Tick

Spec == Init /\ [][Next]_vars

\* The executor runs every submitted task to its end, and the reader thread
\* runs when its wait can end.  Nothing obliges the caller to read or close.
FairSpec ==
    /\ Spec
    /\ WF_vars(Worker)
    /\ WF_vars(ReaderWake)

-----------------------------------------------------------------------------
(* SpecAhead: the stream also looks ahead, so that fetches overlap.  The   *)
(* clock stands still: the CdnUrl plays no part in what the workers write. *)

AheadNext ==
    \/ Streamer_init
    \/ \E c \in Chunks : Read(c)
    \/ \E c \in Chunks : Prefetch(c)
    \/ ReaderWake
    \/ Worker
    \/ Close

\* an external episode (no file id, NoopAudioDecrypt) and a file
\* (AesAudioDecrypt)
AheadInputs ==
    {MakeInput(None, PreEmpty, "token", <<SegExp700>>),
     MakeInput("file", PreEmpty, "token", <<SegExp700>>)}

AheadInit ==
    /\ \E i \in AheadInputs : Constructed(i)
    /\ now = 0
    /\ calls = <<>>
    /\ StreamCreated
    /\ dec = NoDec
    /\ _haltListener = None

SpecAhead == AheadInit /\ [][AheadNext]_vars

FairAhead ==
    /\ SpecAhead
    /\ WF_vars(Worker)
    /\ WF_vars(ReaderWake)

-----------------------------------------------------------------------------
(* SpecHalt: a stream whose blocked reads may stall, with or without a     *)
(* halt listener.                                                          *)

\* Streamer.__init__ is given a halt listener, which may be None
HaltListeners == {None, "listener"}

HaltInit ==
    /\ \E i \in StreamInputs : Constructed(i)
    /\ now = 0
    /\ calls = <<>>
    /\ StreamCreated
    /\ dec = NoDec
    /\ _haltListener \in HaltListeners

HaltNext ==
    \/ Streamer_init
    \/ \E c \in Chunks : Read(c)
    \/ Stall
    \/ ReaderWake
    \/ Worker
    \/ Listener
    \/ Close

SpecHalt == HaltInit /\ [][HaltNext]_vars

-----------------------------------------------------------------------------
(* Properties of the Streamer and its stream.                              *)

\* C1: every ranged request the Streamer sends (the sizing probe and every
\* chunk fetch) that finds the CdnUrl stale (finite expiresAtMs and
\* now + 5 min >= expiresAtMs) has had the resolver invoked for it first.
C1_RequestsUseFreshUrl ==
    \A k \in 1..Len(requests) : requests[k].stale => requests[k].resolved

\* the tasks submitted for chunk i
FetchesOf(i) == {t \in 1..Len(tasks) : tasks[t].index = i}

\* C7: when the background fetch of chunk i has failed while the reader is
\* blocked on chunk i, the error has been handed to the reader: the failure
\* does not end inside the worker task with the reader still waiting for a
\* chunk that will not come.
C7_FetchErrorReachesReader ==
    \A t \in 1..Len(tasks) :
        (/\ tasks[t].pc = "failed"
         /\ reader.pc = "waiting"
         /\ reader.chunk = tasks[t].index) => chunkException = tasks[t].index

\* C8: once the stream is closed, no step changes the chunk buffer array or
\* the available bits, whatever the interleaving of close() with the workers
\* running write_chunk.
C8_NoMutationAfterClose ==
    [][closed => (_buffer' = _buffer /\ _available' = _available)]_vars

\* C9: a read that is blocked on a chunk when the stream is closed ends with
\* the closed signal, whether or not the chunk's fetch completes; the stream
\* stays closed, and closing it again changes nothing.
C9_CloseReleasesReader ==
    /\ \A c \in 0..(MaxChunks - 1) :
          (closed /\ reader.pc = "waiting" /\ reader.chunk = c)
              ~> (reader.pc = "idle" /\ reader.chunk = c /\ reader.blocked
                    /\ reader.result = "closed")
    /\ [][closed => closed']_vars
    /\ [][(closed /\ Close) => UNCHANGED vars]_vars

\* C9's case: a read that blocked on a chunk whose fetch failed has ended
\* with the closed signal.
C9_Witness ==
    /\ closed
    /\ reader.pc = "idle" /\ reader.blocked /\ reader.result = "closed"
    /\ \E t \in 1..Len(tasks) :
          tasks[t].index = reader.chunk /\ tasks[t].pc = "failed"

payload(i) == RemoteBytes(_size, CHUNK_SIZE * i, (i + 1) * CHUNK_SIZE - 1)

C12_ProbeBecomesChunkZero ==
    /\ [][(phase = "Created" /\ phase' = "Active")
             => /\ Len(requests') = 1
                /\ requests'[1].range_start = 0
                /\ requests'[1].range_end = CHUNK_SIZE - 1
                /\ tasks' = <<>>
                /\ _requested'[0] /\ _available'[0]
                /\ _buffer'[0] = decrypt_chunk(0, probe'.content)
                /\ probe'.content = RemoteBytes(_size', 0, CHUNK_SIZE - 1)
                /\ \A i \in DOMAIN _available' :
                      i # 0 => (~_requested'[i] /\ ~_available'[i])]_vars
    /\ [](phase = "Active"
            => /\ FetchesOf(0) = {}
               /\ _requested[0] /\ _available[0]
               /\ _buffer[0] = decrypt_chunk(0, probe.content)
               /\ \A k \in 2..Len(requests) : requests[k].range_start # 0)

\* C12's case: on the stream of an encrypted file with three chunks, chunk
\* 0 has been read (it never blocked) after chunks 1 and 2 were fetched.
C12_Witness ==
    /\ phase = "Active" /\ fileId # None /\ _chunks = 3
    /\ Len(requests) = 3 /\ Len(tasks) = 2
    /\ _available[1] /\ _available[2]
    /\ reader.pc = "idle" /\ reader.chunk = 0 /\ ~reader.blocked
    /\ reader.result = "data" /\ reader.data = _buffer[0]
    /\ _buffer[0].blocks # <<>>

\* the sizing probe has been answered, and the answer is a failure: a status
\* other than 206, no body, or no Content-Range header
ProbeFailed ==
    /\ probe # NoResponse
    /\ \/ probe.status_code # 206
       \/ probe.content = NoBody
       \/ probe.content_range = NoHeader

C14_ChunkCountIsCeiling ==
    /\ [](phase = "Active"
            => /\ _size = probe.content_range
               /\ (_chunks - 1) * CHUNK_SIZE < _size
               /\ _size <= _chunks * CHUNK_SIZE
               /\ _size = CHUNK_SIZE => _chunks = 1
               /\ _size = CHUNK_SIZE + 1 => _chunks = 2
               /\ DOMAIN _requested = 0..(_chunks - 1)
               /\ DOMAIN _available = 0..(_chunks - 1)
               /\ DOMAIN _buffer = 0..(_chunks - 1))
    /\ [][phase = "Active"
             => /\ _size' = _size /\ _chunks' = _chunks
                /\ DOMAIN _requested' = DOMAIN _requested
                /\ DOMAIN _available' = DOMAIN _available
                /\ DOMAIN _buffer' = DOMAIN _buffer]_vars

\* C14's case: a stream of CHUNK_SIZE + 1 bytes has two chunks, and still
\* has after its second chunk was fetched and the stream closed.
C14_Witness ==
    /\ phase = "Active" /\ closed
    /\ _size = CHUNK_SIZE + 1 /\ _chunks = 2
    /\ _available[0] /\ _available[1]
    /\ _buffer[1].len = 1

\* C15: decrypt_chunk(i, buffer) decrypts the first sub-block with the
\* counter IV + floor(CHUNK_SIZE * i / 16) and the sub-block that follows k
\* full 4096-byte sub-blocks with that start + k * 256, each sub-block with
\* its own cipher; the sub-blocks are the consecutive 4096-byte pieces of
\* the input (the last one may be shorter), and the output is as long as
\* the input.
C15_SubBlockCounters ==
    dec.called =>
        LET out   == dec.out
            len   == dec.buffer.len
            start == (CHUNK_SIZE * dec.chunk_index) \div 16
            n     == Len(out.blocks)
        IN  /\ (n - 1) * 4096 < len \/ (n = 0 /\ len = 0)
            /\ len <= n * 4096
            /\ \A k \in 1..n :
                  /\ out.blocks[k].counter = start + (k - 1) * 256
                  /\ out.blocks[k].count =
                        IF k < n THEN 4096 ELSE len - (n - 1) * 4096
            /\ out.len = len
            /\ out.src = dec.buffer.src

\* C15's case: chunk 2, two full sub-blocks and one byte.
C15_Witness ==
    /\ dec.called
    /\ dec.chunk_index = 2
    /\ dec.buffer.len = 2 * 4096 + 1
    /\ Len(dec.out.blocks) = 3
    /\ dec.out.blocks[3].counter = (2 * CHUNK_SIZE) \div 16 + 2 * 256
    /\ dec.out.blocks[3].count = 1
    /\ dec.out.len = 2 * 4096 + 1

\* the byte offsets at which the 16-byte blocks of an n-byte chunk begin
BlockOffsets(n) == {16 * j : j \in 0..((n + 15) \div 16 - 1)}

\* C19: decrypting sub-block by sub-block is decrypting with one continuous
\* counter-mode stream: the 16-byte block at byte offset b of chunk i is
\* decrypted with the counter start + floor(b / 16), where start =
\* IV + floor(CHUNK_SIZE * i / 16); the blocks of a chunk use consecutive
\* counters, none twice; and the counter after the last block of a full
\* chunk i is the start counter of chunk i + 1.
C19_OneContinuousCounterStream ==
    dec.called =>
        LET out    == dec.out
            len    == dec.buffer.len
            start  == (CHUNK_SIZE * dec.chunk_index) \div 16
            used   == {CounterAt(out, b) : b \in BlockOffsets(len)}
            blocks == (len + 15) \div 16
        IN  /\ \A b \in BlockOffsets(len) : CounterAt(out, b) = start + b \div 16
            /\ used = start..(start + blocks - 1)
            /\ Cardinality(used) = blocks
            /\ len = CHUNK_SIZE =>
                  AesAudioDecrypt_decrypt_chunk(dec.chunk_index + 1,
                                                dec.buffer).blocks[1].counter
                     = CounterAt(out, CHUNK_SIZE - 16) + 1

\* C19's case: a full chunk 1 has been decrypted; its last 16-byte block
\* used the counter before the one chunk 2 starts with.
C19_Witness ==
    /\ dec.called
    /\ dec.chunk_index = 1
    /\ dec.buffer.len = CHUNK_SIZE
    /\ Len(dec.out.blocks) = CHUNK_SIZE \div 4096
    /\ CounterAt(dec.out, CHUNK_SIZE - 16) = (2 * CHUNK_SIZE) \div 16 - 1

\* C16: a chunk's buffer slot is written once, into the empty slot, and is
\* immutable afterwards: no step changes buffer[i] once available[i] is
\* set, whatever the interleaving of the write_chunk calls, and no step
\* clears an available bit.
C16_AvailableChunkIsImmutable ==
    /\ [][\A i \in Chunks :
            /\ _available[i] => (_available'[i] /\ _buffer'[i] = _buffer[i])
            /\ _buffer'[i] # _buffer[i] => _buffer[i] = NoBytes]_vars
    /\ [](\A i \in Chunks : _available[i] => _buffer[i] # NoBytes)

\* C16's case: with chunks 0 and 2 available, the completion of chunk 1,
\* requested before chunk 2, has stored its bytes.
C16_Witness ==
    /\ 2 \in Chunks
    /\ Len(tasks) = 2 /\ tasks[1].index = 1 /\ tasks[2].index = 2
    /\ _available[0] /\ _available[2] /\ ~_available[1]
    /\ tasks[1].pc = "notify"
    /\ _buffer[1] # NoBytes /\ _buffer[2] # NoBytes

\* C17: in every reachable state and for every chunk i, available[i]
\* implies that buffer[i] holds decrypt_chunk(i, payload_i) and that
\* requested[i] is set: the bytes are stored, decrypted, before the bit is
\* set, so that a reader that sees the bit finds neither an empty nor an
\* undecrypted slot.
C17_AvailableMeansDecrypted ==
    \A i \in Chunks :
        _available[i] => /\ _buffer[i] = decrypt_chunk(i, payload(i))
                         /\ _requested[i]

\* C17's case: of an encrypted file, the last chunk (one byte) and chunk 0
\* are available and decrypted, while chunk 1 is still being fetched.
C17_Witness ==
    /\ fileId # None
    /\ _size = 2 * CHUNK_SIZE + 1
    /\ _available[0] /\ _available[2] /\ ~_available[1]
    /\ _requested[1]
    /\ Len(_buffer[2].blocks) = 1 /\ _buffer[2].blocks[1].count = 1
    /\ _buffer[2].blocks[1].counter = (2 * CHUNK_SIZE) \div 16
    /\ \E t \in 1..Len(tasks) :
          tasks[t].index = 1 /\ tasks[t].pc = "submitted"

\* C18: the completion of the fetch of chunk i (the steps of write_chunk for
\* chunk i) changes only buffer[i] and available[i]: the buffer slots and
\* available bits of every other chunk, all requested bits, the total size
\* and the chunk count stay as they are.  Completions therefore arrive in
\* any order, and once every chunk is available the chunk table is the same
\* whatever the order was.
C18_CompletionTouchesOwnChunkOnly ==
    /\ [][\A t \in 1..Len(tasks) :
            (/\ tasks[t].pc \in {"write_chunk", "decrypt", "notify"}
             /\ tasks'[t] # tasks[t])
              => /\ \A j \in Chunks :
                      j # tasks[t].index
                        => /\ _buffer'[j] = _buffer[j]
                           /\ _available'[j] = _available[j]
                 /\ _requested' = _requested
                 /\ _size' = _size
                 /\ _chunks' = _chunks]_vars
    /\ []((phase = "Active" /\ \A i \in Chunks : _available[i])
            => /\ _buffer = [i \in 0..(_chunks - 1) |->
                                decrypt_chunk(i, payload(i))]
               /\ _requested = [i \in 0..(_chunks - 1) |-> TRUE])

\* C18's case: chunk 2 was requested before chunk 1, chunk 1 became
\* available before chunk 2, and the table is complete.
C18_Witness ==
    /\ _chunks = 3
    /\ Len(tasks) = 2 /\ tasks[1].index = 2 /\ tasks[2].index = 1
    /\ Len(requests) = 3 /\ requests[2].range_start = CHUNK_SIZE
    /\ \A i \in Chunks : _available[i]
    /\ ~closed

\* the calls of one kind submitted for the halt listener about chunk c
NotificationsOf(kind, c) ==
    {n \in 1..Len(notifications) :
        notifications[n].kind = kind /\ notifications[n].chunk = c}

\* C20: the halt listener receives stream_read_halted(c) before it receives
\* stream_read_resumed(c) for every stalled read of chunk c, and at most
\* one of each per stalled read (a chunk stalls at most one read), although
\* the two calls are separate tasks of the shared executor; and without a
\* halt listener no notification task is submitted.
C20_HaltedBeforeResumed ==
    /\ \A p \in 1..Len(delivered) :
          delivered[p].kind = "stream_read_resumed"
            => \E q \in 1..(p - 1) :
                  /\ delivered[q].kind = "stream_read_halted"
                  /\ delivered[q].chunk = delivered[p].chunk
    /\ \A c \in Chunks :
          /\ Cardinality(NotificationsOf("stream_read_halted", c)) <= 1
          /\ Cardinality(NotificationsOf("stream_read_resumed", c)) <= 1
    /\ _haltListener = None => notifications = <<>>

====
